---- MODULE Spec2Model ----
(***************************************************************************)
(* State-machine model of the form views of edx-ecommerce:                 *)
(*   CodeFormView  (ecommerce/static/js/views/code_form_view.js)           *)
(*   ProgramCreateEditView                                                 *)
(*                 (ecommerce/static/js/views/program/                     *)
(*                  program_create_edit_view.js)                           *)
(*   CourseSeatFormView  (unnamed/part_000)                                *)
(* Each view has its own specification (Spec, SpecProgram, SpecSeat); the  *)
(* variables of the other views keep their initial values in it.           *)
(* The DOM is modelled by generations: every render() replaces the         *)
(* content of the view's element, so the buttons and the .alerts container *)
(* found by one render are different elements from those of the next.      *)
(* Callbacks of a save keep the jQuery objects they captured, i.e. the     *)
(* generation that was current when submit ran.                            *)
(*                                                                         *)
(* The handlers are driven on a rendered, live view: this.$alerts and the  *)
(* buttons exist only once render() has run (line 90), and remove()        *)
(* detaches the element together with its delegated 'submit' event.  The   *)
(* callbacks of a save that is still pending are not bound to the element: *)
(* they run whenever the request completes, also after remove().  submit   *)
(* itself tests nothing but model.isValid(true), so a submit event that    *)
(* arrives while a save is pending issues another save.                    *)
(***************************************************************************)
EXTENDS Integers, Sequences, FiniteSets, TLC

\* ---------------------------------------------------------------- bounds
MaxSubmits == 3
MaxRenders == 2
MaxDirectAlerts == 1
MaxProgramRenders == 3
MaxProgramRemoves == 2

\* ------------------------------------------------------------- constants
\* JavaScript undefined (a missing responseJSON / a missing error member).
Undefined == "undefined"
\* Text of the submit button as the template renders it.
DefaultLabel == "Save"
\* btnSavingContent: the spinner markup followed by gettext('Saving...').
SavingHtml == "<i class=fa-spinner></i> Saving..."
\* What .text() reads back from a button holding btnSavingContent.
SavingText == " Saving..."
RequiredFieldsMessage == "Please complete all required fields."
GenericSaveMessage == "An error occurred while saving the data."
\* Identifiers the server may assign to the saved model.
Ids == {101, 102}
\* Values of responseJSON.error the server may send (besides none at all).
ServerErrors == {"", "Code already exists."}
\* Error responses: responseJSON absent, or present with or without error.
Responses ==
    {[hasJSON |-> FALSE, error |-> Undefined]}
        \cup {[hasJSON |-> TRUE, error |-> e] : e \in ServerErrors \cup {Undefined}}
NoResponse == [hasJSON |-> FALSE, error |-> Undefined]

VARIABLES
    renders,      \* number of render() calls; the current DOM generation, $alerts
    removed,      \* remove() has run
    modelValid,   \* what model.isValid(true) answers for the bound model
    modelId,      \* model.id (0: a new model, not saved yet)
    alertEls,     \* every AlertView created: level, message, parent container
    alertViews,   \* this.alertViews: indices into alertEls, in push order
    buttons,      \* per generation: state of the .form-actions buttons
    requests,     \* save requests in flight: the closures of their callbacks
    nav,          \* targets passed to goTo, in call order
    saveCalls,    \* number of model.save invocations
    submits,      \* number of submit() calls
    directAlerts, \* number of renderAlert() calls made from outside submit
    lastCall,     \* the handler that ran last, with its inputs
    batch,        \* saves issued since the form last had no save pending
    \* ProgramCreateEditView
    pEditing,     \* this.editing, as given in the options
    pAttrs,       \* this.model.attributes
    pFormView,    \* this.formView: 0 (unset or null) or the instance it holds
    pForms,       \* every ProgramFormView constructed: renders, removed
    pRenders,     \* number of render() calls
    pRemoves,     \* number of remove() calls
    pLast,        \* the method of the view that ran last
    \* CourseSeatFormView
    sRendered,    \* render() has run: the inputs exist and are bound
    sAttrs,       \* this.model.attributes
    sInputs,      \* value of the input of each field of the form
    sLast         \* the update of the view that ran last

codeVars == <<renders, removed, modelValid, modelId, alertEls, alertViews,
              buttons, requests, nav, saveCalls, submits, directAlerts, lastCall,
              batch>>
programVars == <<pEditing, pAttrs, pFormView, pForms, pRenders, pRemoves, pLast>>
seatVars == <<sRendered, sAttrs, sInputs, sLast>>

vars == <<codeVars, programVars, seatVars>>

Call(op, id, response) == [op |-> op, id |-> id, response |-> response]

Range(s) == {s[i] : i \in DOMAIN s}

\* ------------------------------------------------------------ jQuery/DOM
\* jQuery truthiness of a value of the response.
Truthy(v) == v # Undefined /\ v # ""

\* $submitButton.text(): the text content of the button.
ButtonText(label) == IF label = SavingHtml THEN SavingText ELSE label

\* Children of the .alerts container of generation g, in append order.
RECURSIVE ContainerFrom(_, _, _)
ContainerFrom(els, g, i) ==
    IF i > Len(els) THEN <<>>
    ELSE IF els[i].parent = g THEN <<i>> \o ContainerFrom(els, g, i + 1)
    ELSE ContainerFrom(els, g, i + 1)

Container(els, g) == ContainerFrom(els, g, 1)

\* ------------------------------------------- the other views, not driven
\* ProgramCreateEditView as constructed for a new program.
ProgramIdle ==
    /\ pEditing = "false"
    /\ pAttrs = [name |-> "", editing |-> "absent"]
    /\ pFormView = 0
    /\ pForms = <<>>
    /\ pRenders = 0
    /\ pRemoves = 0
    /\ pLast = "initialize"

\* CourseSeatFormView as constructed for an honor seat.
SeatIdle ==
    /\ sRendered = FALSE
    /\ sAttrs = [certificate_type |-> [type |-> "string", val |-> "honor"],
                 id_verification_required |-> [type |-> "boolean", val |-> "false"],
                 price |-> [type |-> "string", val |-> "0"],
                 expires |-> [type |-> "string", val |-> ""],
                 course_id |-> [type |-> "string", val |-> "course-v1:a+b+c"]]
    /\ sInputs = [certificate_type |-> "", expires |-> "",
                  id_verification_required |-> "", price |-> ""]
    /\ sLast = "initialize"

\* CodeFormView as constructed, with a model that does not validate yet.
CodeFormIdle ==
    /\ renders = 0
    /\ removed = FALSE
    /\ modelValid = FALSE
    /\ modelId = 0
    /\ alertEls = <<>>
    /\ alertViews = <<>>
    /\ buttons = <<>>
    /\ requests = <<>>
    /\ nav = <<>>
    /\ saveCalls = 0
    /\ submits = 0
    /\ directAlerts = 0
    /\ lastCall = [op |-> "initialize", id |-> 0, response |-> NoResponse]
    /\ batch = 0

\* ------------------------------------------------------------ initialize
Init ==
    /\ renders = 0
    /\ removed = FALSE
    /\ modelValid \in BOOLEAN
    /\ modelId = 0
    /\ alertEls = <<>>
    /\ alertViews = <<>>
    /\ buttons = <<>>
    /\ requests = <<>>
    /\ nav = <<>>
    /\ saveCalls = 0
    /\ submits = 0
    /\ directAlerts = 0
    /\ lastCall = Call("initialize", 0, NoResponse)
    /\ batch = 0
    /\ ProgramIdle
    /\ SeatIdle

\* ---------------------------------------------------------------- render
Render ==
    /\ ~removed
    /\ renders < MaxRenders
    /\ renders' = renders + 1
    /\ buttons' = Append(buttons, [disabled |-> FALSE, label |-> DefaultLabel])
    /\ lastCall' = Call("render", 0, NoResponse)
    /\ UNCHANGED <<removed, modelValid, modelId, alertEls, alertViews, requests,
                   nav, saveCalls, submits, directAlerts>>
    /\ UNCHANGED <<batch, programVars, seatVars>>

\* --------------------------------------------------------------- stickit
\* An edit of a bound input changes the model and so what isValid answers.
EditModel ==
    /\ ~removed
    /\ renders > 0
    /\ modelValid' = ~modelValid
    /\ lastCall' = Call("edit", 0, NoResponse)
    /\ UNCHANGED <<renders, removed, modelId, alertEls, alertViews, buttons,
                   requests, nav, saveCalls, submits, directAlerts>>
    /\ UNCHANGED <<batch, programVars, seatVars>>

\* ----------------------------------------------------------- renderAlert
\* The alert elements after view.render(); this.$alerts.append(view.el).
RenderAlertEls(els, level, message, g) ==
    Append(els, [level |-> level, message |-> message, parent |-> g])

\* A renderAlert that appends the element and forgets to track the view.
RenderAlertViewsUntracked(els, views) == views

\* this.alertViews after this.alertViews.push(view).
RenderAlertViews(els, views) == Append(views, Len(els) + 1)

Levels == {"danger", "success"}
DirectMessages == {"Saved."}

RenderAlert(level, message) ==
    /\ ~removed
    /\ renders > 0
    /\ directAlerts < MaxDirectAlerts
    /\ alertEls' = RenderAlertEls(alertEls, level, message, renders)
    /\ alertViews' = RenderAlertViews(alertEls, alertViews)
    /\ directAlerts' = directAlerts + 1
    /\ lastCall' = Call("renderAlert", 0, NoResponse)
    /\ UNCHANGED <<renders, removed, modelValid, modelId, buttons, requests,
                   nav, saveCalls, submits>>
    /\ UNCHANGED <<batch, programVars, seatVars>>

\* ----------------------------------------------------------- clearAlerts
\* A clearAlerts that removes only the alert pushed last.
ClearAlertsElsLastOnly(els, views) ==
    [i \in DOMAIN els |->
        IF views # <<>> /\ i = views[Len(views)]
        THEN [els[i] EXCEPT !.parent = 0] ELSE els[i]]

\* The alert elements after view.remove() of every tracked alert view.
ClearAlertsEls(els, views) ==
    [i \in DOMAIN els |->
        IF i \in Range(views) THEN [els[i] EXCEPT !.parent = 0] ELSE els[i]]

\* A clearAlerts that removes the views but keeps tracking them.
ClearAlertsViewsKept(views) == views

\* this.alertViews after clearAlerts.
ClearAlertsViews(views) == <<>>

ClearAlerts ==
    /\ ~removed
    /\ alertEls' = ClearAlertsEls(alertEls, alertViews)
    /\ alertViews' = ClearAlertsViews(alertViews)
    /\ lastCall' = Call("clearAlerts", 0, NoResponse)
    /\ UNCHANGED <<renders, removed, modelValid, modelId, buttons, requests,
                   nav, saveCalls, submits, directAlerts>>
    /\ UNCHANGED <<batch, programVars, seatVars>>

\* ---------------------------------------------------------------- remove
Remove ==
    /\ ~removed
    /\ removed' = TRUE
    /\ alertEls' = ClearAlertsEls(alertEls, alertViews)
    /\ alertViews' = ClearAlertsViews(alertViews)
    /\ lastCall' = Call("remove", 0, NoResponse)
    /\ UNCHANGED <<renders, modelValid, modelId, buttons, requests, nav,
                   saveCalls, submits, directAlerts>>
    /\ UNCHANGED <<batch, programVars, seatVars>>

\* ---------------------------------------------------------------- submit
\* The closure of the callbacks handed to model.save: the buttons found by
\* this submit and the text read from the submit button.
Closure(g, text) == [gen |-> g, btnDefaultText |-> text]

\* The buttons after $submitButton.html(btnSavingContent) and
\* $buttons.attr('disabled', 'disabled').addClass('disabled').
SavingButtons(btns, g) ==
    [btns EXCEPT ![g] = [disabled |-> TRUE, label |-> SavingHtml]]

\* model.save(options): the request is issued and its callbacks are pending.
Save(reqs, closure) == Append(reqs, closure)

SubmitInvalid ==
    /\ alertEls' = RenderAlertEls(ClearAlertsEls(alertEls, alertViews),
                                  "danger", RequiredFieldsMessage, renders)
    /\ alertViews' = RenderAlertViews(alertEls, ClearAlertsViews(alertViews))
    /\ UNCHANGED <<buttons, requests, saveCalls, batch>>

SubmitValid ==
    /\ buttons' = SavingButtons(buttons, renders)
    /\ requests' = Save(requests,
                        Closure(renders, ButtonText(buttons[renders].label)))
    /\ saveCalls' = saveCalls + 1
    /\ batch' = IF requests = <<>> THEN 1 ELSE batch + 1
    /\ UNCHANGED <<alertEls, alertViews>>

\* A submit that saves without looking at the result of the validation.
SubmitUnvalidated ==
    /\ ~removed
    /\ renders > 0
    /\ submits < MaxSubmits
    /\ submits' = submits + 1
    /\ SubmitValid
    /\ lastCall' = Call("submit", 0, NoResponse)
    /\ UNCHANGED <<renders, removed, modelValid, modelId, nav, directAlerts>>
    /\ UNCHANGED <<programVars, seatVars>>

Submit ==
    /\ ~removed
    /\ renders > 0
    /\ submits < MaxSubmits
    /\ submits' = submits + 1
    /\ IF ~modelValid THEN SubmitInvalid ELSE SubmitValid
    /\ lastCall' = Call(IF modelValid THEN "submit" ELSE "submit_invalid",
                        0, NoResponse)
    /\ UNCHANGED <<renders, removed, modelValid, modelId, nav, directAlerts>>
    /\ UNCHANGED <<programVars, seatVars>>

\* ---------------------------------------------------- the save callbacks
RemoveAt(s, i) == SubSeq(s, 1, i - 1) \o SubSeq(s, i + 1, Len(s))

\* A complete callback that restores the text and leaves the buttons disabled.
CompleteButtonsTextOnly(btns, c) ==
    [btns EXCEPT ![c.gen] = [disabled |-> TRUE, label |-> c.btnDefaultText]]

\* complete: $submitButton.text(btnDefaultText) and the buttons re-enabled.
CompleteButtons(btns, c) ==
    [btns EXCEPT ![c.gen] = [disabled |-> FALSE, label |-> c.btnDefaultText]]

\* A success handler that navigates without the identifier of the model.
SuccessNavNoId(targets, id) == Append(targets, 0)

\* success: self.goTo(model.id).
SuccessNav(targets, id) == Append(targets, id)

\* An error handler that never reads the body of the response.
ErrorMessageGeneric(response) == GenericSaveMessage

\* error: the message of the alert.
ErrorMessage(response) ==
    IF response.hasJSON /\ Truthy(response.error)
    THEN response.error
    ELSE GenericSaveMessage

\* error: the level of the alert.
ErrorLevel == "danger"

\* The request requests[i] succeeds: the server's id is set on the model,
\* then success and complete run.
CompleteSuccess(i, id) ==
    /\ i \in DOMAIN requests
    /\ modelId' = id
    /\ nav' = SuccessNav(nav, modelId')
    /\ buttons' = CompleteButtons(buttons, requests[i])
    /\ requests' = RemoveAt(requests, i)
    /\ lastCall' = Call("save_success", id, NoResponse)
    /\ UNCHANGED <<renders, removed, modelValid, alertEls, alertViews,
                   saveCalls, submits, directAlerts>>
    /\ UNCHANGED <<batch, programVars, seatVars>>

\* The request requests[i] fails with response: error and complete run.
CompleteError(i, response) ==
    /\ i \in DOMAIN requests
    /\ alertEls' = RenderAlertEls(ClearAlertsEls(alertEls, alertViews),
                                  ErrorLevel, ErrorMessage(response), renders)
    /\ alertViews' = RenderAlertViews(alertEls, ClearAlertsViews(alertViews))
    /\ buttons' = CompleteButtons(buttons, requests[i])
    /\ requests' = RemoveAt(requests, i)
    /\ lastCall' = Call("save_error", 0, response)
    /\ UNCHANGED <<renders, removed, modelValid, modelId, nav, saveCalls,
                   submits, directAlerts>>
    /\ UNCHANGED <<batch, programVars, seatVars>>

\* ------------------------------------------------------------------ Next
Next ==
    \/ Render
    \/ EditModel
    \/ \E level \in Levels, message \in DirectMessages : RenderAlert(level, message)
    \/ ClearAlerts
    \/ Submit
    \/ \E i \in 1..MaxSubmits, id \in Ids : CompleteSuccess(i, id)
    \/ \E i \in 1..MaxSubmits, response \in Responses : CompleteError(i, response)
    \/ Remove


Spec == Init /\ [][Next]_vars

\* ================================================= ProgramCreateEditView
\* Values of options.editing; a page that passes none leaves it undefined.
EditingOptions == {"true", "false", "undefined"}
\* Names a program may carry.
ProgramNames == {"", "Data Science"}

\* initialize: the view of a model that came from the server or is new.
InitProgram ==
    /\ CodeFormIdle
    /\ SeatIdle
    /\ pEditing \in EditingOptions
    /\ pAttrs \in [name : ProgramNames, editing : {"absent"}]
    /\ pFormView = 0
    /\ pForms = <<>>
    /\ pRenders = 0
    /\ pRemoves = 0
    /\ pLast = "initialize"

\* A render that constructs a new ProgramFormView every time.
InstantiateAlways(formView, forms) ==
    [formView |-> Len(forms) + 1,
     forms |-> Append(forms, [renders |-> 0, removed |-> FALSE])]

\* this.formView = this.formView || new ProgramFormView({...}).
InstantiateOnce(formView, forms) ==
    IF formView # 0
    THEN [formView |-> formView, forms |-> forms]
    ELSE [formView |-> Len(forms) + 1,
          forms |-> Append(forms, [renders |-> 0, removed |-> FALSE])]

\* data = this.model.attributes; data.editing = this.editing: data is the
\* attribute bag of the model itself, not a copy of it.
RenderData(attrs, editing) == [attrs EXCEPT !.editing = editing]

\* this.formView.render().
RenderForm(forms, formView) ==
    [forms EXCEPT ![formView].renders = @ + 1]

ProgramRender ==
    /\ pRenders < MaxProgramRenders
    /\ pRenders' = pRenders + 1
    /\ LET made == InstantiateOnce(pFormView, pForms)
       IN  /\ pFormView' = made.formView
           /\ pForms' = RenderForm(made.forms, made.formView)
    /\ pAttrs' = RenderData(pAttrs, pEditing)
    /\ pLast' = "render"
    /\ UNCHANGED <<pEditing, pRemoves>>
    /\ UNCHANGED <<codeVars, seatVars>>

\* remove: the form view, when there is one, is removed and forgotten.
ProgramRemove ==
    /\ pRemoves < MaxProgramRemoves
    /\ pRemoves' = pRemoves + 1
    /\ IF pFormView # 0
       THEN /\ pForms' = [pForms EXCEPT ![pFormView].removed = TRUE]
            /\ pFormView' = 0
       ELSE UNCHANGED <<pForms, pFormView>>
    /\ pLast' = "remove"
    /\ UNCHANGED <<pEditing, pAttrs, pRenders>>
    /\ UNCHANGED <<codeVars, seatVars>>

\* The user edits the name in the form view, whose binding sets it on the model.
ProgramEdit(name) ==
    /\ pFormView # 0
    /\ pAttrs.name # name
    /\ pAttrs' = [pAttrs EXCEPT !.name = name]
    /\ pLast' = "edit"
    /\ UNCHANGED <<pEditing, pFormView, pForms, pRenders, pRemoves>>
    /\ UNCHANGED <<codeVars, seatVars>>

NextProgram ==
    \/ ProgramRender
    \/ ProgramRemove
    \/ \E name \in ProgramNames : ProgramEdit(name)

SpecProgram == InitProgram /\ [][NextProgram]_vars

\* ==================================================== CourseSeatFormView
\* JavaScript values of the attributes, with their type.
JsString(str) == [type |-> "string", val |-> str]
JsBoolean(b) == [type |-> "boolean", val |-> IF b THEN "true" ELSE "false"]
JsUndefined == [type |-> "undefined", val |-> ""]

\* fields of getData, the inputs of the form.
Fields == {"certificate_type", "id_verification_required", "price", "expires"}

\* Values the inputs of the form can take (none with surrounding blanks).
InputValues(field) ==
    CASE field = "certificate_type" -> {"honor", "verified"}
      [] field = "id_verification_required" -> {"true", "false", "1", "0"}
      [] field = "price" -> {"0", "10", "abc"}
      [] field = "expires" -> {"", "2030-01-01"}

\* The rule of the seat model for price, applied by a set with validate: true.
PriceValid(value) == value \in {"0", "10"}

\* _s.toBoolean(val): a value that is no string is coerced; of the strings,
\* 'true' and '1' give true, 'false' and '0' give false, any other undefined.
ToBoolean(v) ==
    IF v.type # "string" THEN JsBoolean(v.type = "boolean" /\ v.val = "true")
    ELSE IF v.val \in {"true", "1"} THEN JsBoolean(TRUE)
    ELSE IF v.val \in {"false", "0"} THEN JsBoolean(FALSE)
    ELSE JsUndefined

CleanIdVerificationRequired(val) == ToBoolean(val)

\* What an input shows for a value of the model.
InputValue(v) == IF v.type = "undefined" THEN "" ELSE v.val

\* getFieldValue(name): .val() of the input, a string.
GetFieldValue(inputs, name) == JsString(inputs[name])

\* getData(): the value of the input of each of the four fields.
GetData(inputs) == [f \in Fields |-> GetFieldValue(inputs, f)]

\* this.model.set(data): the attributes named in data take its values.
ModelSet(attrs, data) ==
    [a \in DOMAIN attrs |-> IF a \in DOMAIN data THEN data[a] ELSE attrs[a]]

\* The attributes after the binding of an input has set its value.
BindingSet(attrs, field, value) ==
    CASE field = "id_verification_required" ->
            [attrs EXCEPT ![field] = CleanIdVerificationRequired(JsString(value))]
      [] field = "price" ->
            IF PriceValid(value) THEN [attrs EXCEPT ![field] = JsString(value)]
            ELSE attrs
      [] OTHER -> [attrs EXCEPT ![field] = JsString(value)]

\* initialize: the view of a seat as the server sent it.
InitSeat ==
    /\ CodeFormIdle
    /\ ProgramIdle
    /\ sRendered = FALSE
    /\ sAttrs \in [certificate_type : {JsString("honor"), JsString("verified")},
                   id_verification_required : {JsBoolean(TRUE), JsBoolean(FALSE)},
                   price : {JsString("0")},
                   expires : {JsString("")},
                   course_id : {JsString("course-v1:a+b+c")}]
    /\ sInputs = [f \in Fields |-> ""]
    /\ sLast = "initialize"

\* render: the template is filled from the attributes and stickit binds it.
SeatRender ==
    /\ sRendered' = TRUE
    /\ sInputs' = [f \in Fields |-> InputValue(sAttrs[f])]
    /\ sLast' = "render"
    /\ UNCHANGED sAttrs
    /\ UNCHANGED <<codeVars, programVars>>

\* The user changes an input; its binding sets the attribute it observes.
SeatInput(field, value) ==
    /\ sRendered
    /\ sInputs[field] # value
    /\ sInputs' = [sInputs EXCEPT ![field] = value]
    /\ sAttrs' = BindingSet(sAttrs, field, value)
    /\ sLast' = "input"
    /\ UNCHANGED sRendered
    /\ UNCHANGED <<codeVars, programVars>>

\* updateModel: this.model.set(this.getData()).
SeatUpdateModel ==
    /\ sRendered
    /\ sAttrs' = ModelSet(sAttrs, GetData(sInputs))
    /\ sLast' = "updateModel"
    /\ UNCHANGED <<sRendered, sInputs>>
    /\ UNCHANGED <<codeVars, programVars>>

NextSeat ==
    \/ SeatRender
    \/ \E field \in Fields : \E value \in InputValues(field) : SeatInput(field, value)
    \/ SeatUpdateModel

SpecSeat == InitSeat /\ [][NextSeat]_vars

\* ================================================================ claims
\* The buttons and the submit label the user sees: those of the current DOM.
CurrentButtons == buttons[renders]
InFlight == Len(requests)
LastAlert == alertEls[Len(alertEls)]
AllAlertsRemoved == \A i \in DOMAIN alertEls : alertEls[i].parent = 0

\* C1: a submit() whose model.isValid(true) is false invokes model.save not at
\* all: the count of save calls and the requests in flight stay as they were,
\* whatever ran before.
C1_InvalidSubmitIssuesNoSave ==
    [][(submits' = submits + 1 /\ ~modelValid)
          => (saveCalls' = saveCalls /\ requests' = requests)]_vars

\* An invalid submit has run while an earlier save was still in flight.
C1_Witness ==
    /\ lastCall.op = "submit_invalid"
    /\ InFlight > 0
    /\ saveCalls = InFlight

\* C2 (as claimed): the action buttons are disabled whenever a save is in
\* flight, and enabled whenever none is.
C2_ButtonsDisabledWhileInFlight ==
    renders > 0 => (CurrentButtons.disabled <=> InFlight > 0)

\* C3 (as claimed): at most one save request is in flight.
C3_AtMostOneInFlight == InFlight <= 1

\* C4: right after a submit that failed validation, and right after the error
\* handler of a failed save, exactly one alert is tracked and it is the only
\* child of the form's .alerts container.
C4_ExactlyOneAlertAfterFailure ==
    lastCall.op \in {"submit_invalid", "save_error"}
        => /\ Len(alertViews) = 1
           /\ Container(alertEls, renders) = alertViews

\* A failed save has shown its alert after earlier alerts had been rendered.
C4_Witness ==
    /\ lastCall.op = "save_error"
    /\ Len(alertEls) >= 3
    /\ Len(alertViews) = 1
    /\ Container(alertEls, renders) = <<Len(alertEls)>>

\* C5: goTo is called only by the success handler of a save, with the id of
\* the saved model; a validation failure or a failed save never navigates.
C5_NavigateOnlyOnSuccess ==
    [][/\ nav' # nav
            => /\ lastCall'.op = "save_success"
               /\ nav' = Append(nav, lastCall'.id)
               /\ modelId' = lastCall'.id
               /\ Len(requests') = Len(requests) - 1
       /\ lastCall'.op = "save_success" => nav' = Append(nav, modelId')
       /\ lastCall'.op \in {"submit_invalid", "save_error"} => nav' = nav]_vars

\* A save has succeeded and the view navigated to the id the server assigned,
\* after an earlier failure of a save.
C5_Witness ==
    /\ lastCall.op = "save_success"
    /\ nav = <<modelId>>
    /\ modelId \in Ids
    /\ Len(alertViews) = 1
    /\ LastAlert.message = GenericSaveMessage

\* C6: after clearAlerts no alert element rendered so far is left in any
\* container, and alertViews is empty.
C6_ClearAlertsRemovesAll ==
    lastCall.op = "clearAlerts" => (alertViews = <<>> /\ AllAlertsRemoved)

\* clearAlerts has run with several alerts rendered before it.
C6_Witness ==
    /\ lastCall.op = "clearAlerts"
    /\ Len(alertEls) >= 3
    /\ alertViews = <<>>
    /\ AllAlertsRemoved

\* C7 (as claimed): once a validation failure or a failed save has returned
\* control and no save is pending, the form is Idle: the action buttons are
\* enabled and the submit button shows its label again.
C7_FailureReturnsToIdle ==
    (lastCall.op \in {"submit_invalid", "save_error"} /\ InFlight = 0)
        => (~CurrentButtons.disabled /\ CurrentButtons.label = DefaultLabel)

\* C8: the alert of a failed save has level 'danger'; its message is
\* responseJSON.error when the response has a JSON body with a non-empty
\* error, and the generic message in every other case.
C8_ErrorAlertMessage ==
    lastCall.op = "save_error"
        => /\ LastAlert.level = "danger"
           /\ alertViews = <<Len(alertEls)>>
           /\ LET r == lastCall.response
              IN  IF r.hasJSON /\ r.error \notin {Undefined, ""}
                  THEN LastAlert.message = r.error
                  ELSE LastAlert.message = GenericSaveMessage

\* A save has failed with a message of the server, which the alert shows.
C8_Witness ==
    /\ lastCall.op = "save_error"
    /\ lastCall.response = [hasJSON |-> TRUE, error |-> "Code already exists."]
    /\ LastAlert.message = "Code already exists."
    /\ LastAlert.parent = renders

\* C9 (as claimed): once remove() has run the view tracks no alert and none
\* of its alerts is in a container.
C9_NoAlertsAfterRemove ==
    removed => (alertViews = <<>> /\ AllAlertsRemoved)

\* C10 (as claimed): whenever no save is in flight the submit button shows
\* the label it had before the first submit.
C10_LabelRestoredWhenNoneInFlight ==
    (renders > 0 /\ InFlight = 0) => CurrentButtons.label = DefaultLabel

\* The step that completes the last pending save of several that overlapped.
LastOfOverlapCompletes ==
    /\ Len(requests) = 1
    /\ requests' = <<>>
    /\ batch >= 2

\* C11 (as claimed): when the last of several overlapping saves completes,
\* an alert that is displayed is the one produced by that completion, and the
\* buttons of that request are in the state its complete callback sets.
C11_LastCompletionWins ==
    [][LastOfOverlapCompletes
          => /\ alertViews' # <<>>
                  => (lastCall'.op = "save_error" /\ alertViews' = <<Len(alertEls')>>)
             /\ buttons'[requests[1].gen] =
                  [disabled |-> FALSE, label |-> requests[1].btnDefaultText]]_vars

\* C11 (amended): when the last of several overlapping saves completes with
\* an error, the only alert displayed is the one of that error; when it
\* completes with success, the alerts stay as they were; in both cases the
\* buttons of that request are enabled and show the text it had stored.
C11_LastCompletionWinsAmended ==
    [][LastOfOverlapCompletes
          => /\ lastCall'.op \in {"save_success", "save_error"}
             /\ lastCall'.op = "save_error"
                  => /\ alertViews' = <<Len(alertEls')>>
                     /\ Len(alertEls') = Len(alertEls) + 1
                     /\ Container(alertEls', renders') = alertViews'
                     /\ LastAlert'.message = ErrorMessage(lastCall'.response)
             /\ lastCall'.op = "save_success"
                  => (alertViews' = alertViews /\ alertEls' = alertEls)
             /\ buttons'[requests[1].gen] =
                  [disabled |-> FALSE, label |-> requests[1].btnDefaultText]]_vars

\* Three saves overlapped on the same buttons and all have completed, the
\* last one with an error whose alert is the one displayed; the label is the
\* text the last request had stored.
C11_Witness ==
    /\ batch = 3
    /\ requests = <<>>
    /\ lastCall.op = "save_error"
    /\ alertViews = <<Len(alertEls)>>
    /\ Len(alertEls) >= 2
    /\ ~CurrentButtons.disabled
    /\ CurrentButtons.label = SavingText
\* The tracked alerts whose element is a child of the container of generation g.
TrackedIn(els, views, g) == SelectSeq(views, LAMBDA i : els[i].parent = g)

\* C13 (as claimed): alertViews is exactly the sequence of alert elements in
\* the view's current .alerts container, in append order.
C13_TrackedEqualsContainer ==
    IF renders = 0 THEN alertViews = <<>>
    ELSE Container(alertEls, renders) = alertViews

\* C13 (amended): the alert elements in the current .alerts container are, in
\* append order, exactly the tracked alerts rendered since the last render();
\* an alert tracked from before that render() is still a child of the
\* container that render() replaced, and no tracked alert has been removed.
C13_ContainerIsTrackedSinceRender ==
    /\ renders = 0 => alertViews = <<>>
    /\ renders > 0
         => Container(alertEls, renders) = TrackedIn(alertEls, alertViews, renders)
    /\ \A k \in DOMAIN alertViews :
         /\ alertEls[alertViews[k]].parent \in 1..renders
         /\ \A j \in DOMAIN alertViews :
              j < k => /\ alertViews[j] < alertViews[k]
                       /\ alertEls[alertViews[j]].parent
                            <= alertEls[alertViews[k]].parent

\* Two alerts are tracked, one rendered before the last render() and one
\* after it; only the second is in the current container.
C13_Witness ==
    /\ renders = 2
    /\ Len(alertViews) = 2
    /\ alertEls[alertViews[1]].parent = 1
    /\ Container(alertEls, renders) = <<alertViews[2]>>
\* The ProgramFormView instances that have not been removed.
LiveForms == {f \in DOMAIN pForms : ~pForms[f].removed}

\* C12: a render() with a form view in place reuses it and constructs none; a
\* render() without one constructs exactly one; every render() renders the
\* form view it holds; remove() removes that form view and sets formView to
\* null.  So at most one form view is live, and it is this.formView.
C12_FormViewInstantiatedOnce ==
    [][/\ pRenders' = pRenders + 1
            => /\ IF pFormView # 0
                  THEN pFormView' = pFormView /\ Len(pForms') = Len(pForms)
                  ELSE pFormView' = Len(pForms) + 1 /\ Len(pForms') = Len(pForms) + 1
               /\ pForms'[pFormView'].renders =
                    (IF pFormView # 0 THEN pForms[pFormView].renders + 1 ELSE 1)
               /\ \A f \in DOMAIN pForms :
                    f # pFormView => pForms'[f] = pForms[f]
       /\ pRemoves' = pRemoves + 1
            => /\ pFormView' = 0
               /\ Len(pForms') = Len(pForms)
               /\ pFormView # 0 => pForms'[pFormView].removed
       /\ LiveForms' = (IF pFormView' = 0 THEN {} ELSE {pFormView'})
       /\ Len(pForms') <= pRemoves' + 1]_vars

\* One form view served two renders and was removed; the render after the
\* remove() constructed the second one, which is the one held.
C12_Witness ==
    /\ pRenders = 3
    /\ pRemoves = 1
    /\ Len(pForms) = 2
    /\ pForms[1] = [renders |-> 2, removed |-> TRUE]
    /\ pForms[2] = [renders |-> 1, removed |-> FALSE]
    /\ pFormView = 2

\* C14 (as claimed): render() leaves the attributes of the model as they were.
C14_RenderKeepsAttributes ==
    [][pRenders' = pRenders + 1 => pAttrs' = pAttrs]_vars
\* C15 (as claimed): after every update driven by the view, through a binding
\* or through updateModel(), id_verification_required is a boolean; and
\* updateModel() sets the four fields from the inputs and no other attribute.
C15_IdVerificationRequiredIsBoolean ==
    [][/\ sLast' \in {"input", "updateModel"}
            => sAttrs'.id_verification_required.type = "boolean"
       /\ sLast' = "updateModel"
            => /\ \A f \in Fields : sAttrs'[f].val = sInputs[f]
               /\ sAttrs'.course_id = sAttrs.course_id]_vars
====
